---- MODULE Spec2Model ----
(***************************************************************************)
(* Model of the consolidation engine of the enhanced ingestor service      *)
(* (src/python/ingestor_service/enhanced_ingestor.py).                      *)
(*                                                                         *)
(* Representation                                                          *)
(*   - a Python str is a sequence of one-character strings, so that        *)
(*     lower(), startswith(), `in` and the regex filters are computed;     *)
(*     JSON null is the one-element sequence Null.                         *)
(*   - a Python dict with string keys chosen by the program is a TLA+      *)
(*     record whose DOMAIN is the set of keys present; a dict keyed by     *)
(*     data (model ids) is an insertion-ordered sequence of [k, v] pairs.  *)
(*   - None is the record None; a raised exception is [raised |-> TRUE].   *)
(*   - a float is a fixed-point integer: scores in 1/100 point, weights    *)
(*     and recency factors in 1/10, quality factors in 1/100, confidences  *)
(*     and data qualities in 1/1000, costs in 1/10000 dollar.  A division  *)
(*     is the integer division of the scaled operands.                     *)
(*   - datetime.now() is the day counter `now`; an ISO date is a day.      *)
(***************************************************************************)
EXTENDS Integers, Sequences, FiniteSets, TLC

VARIABLES
    started,                     \* startup_event has run
    api_key,                     \* analytics_manager.api_key is set
    redis_client,                \* the module global: "None" or "Redis"
    redisStore,                  \* Redis contents: ordered dict model_id -> JSON
    global_consolidated_models,  \* the module global: ordered dict
    outputFile,                  \* enhanced_models.json
    managers,                    \* last_update and data_quality of the three managers
    now,                         \* the clock, in days
    passes,                      \* the consolidate_data coroutines
    resp,                        \* the response a handler is returning, or NoResp
    hist                         \* history: what the pass that published last had read

vars == <<started, api_key, redis_client, redisStore, global_consolidated_models,
          outputFile, managers, now, passes, resp, hist>>

(***************************************************************************)
(* Bounds of the model.                                                    *)
(***************************************************************************)
MaxPasses == 2      \* consolidate_data tasks created in one run of the process
MaxLimit == 2       \* largest `limit` a ranking query is called with
MaxTicks == 1       \* clock advances of DayStep days

(***************************************************************************)
(* Python values.                                                          *)
(***************************************************************************)
None == [is_none |-> TRUE]
Null == <<"null">>
Raised == [raised |-> TRUE]
NoTime == -1

Min(a, b) == IF a <= b THEN a ELSE b
Max(a, b) == IF a >= b THEN a ELSE b

Has(d, f) == f \in DOMAIN d
Get(d, f, default) == IF f \in DOMAIN d THEN d[f] ELSE default

\* Python truthiness of an Optional[Dict]: None and {} are falsy.
Truthy(d) == d # None /\ DOMAIN d # {}

(***************************************************************************)
(* str operations.                                                         *)
(***************************************************************************)
UpperToLower ==
    [A |-> "a", B |-> "b", C |-> "c", D |-> "d", E |-> "e", F |-> "f", G |-> "g",
     H |-> "h", I |-> "i", J |-> "j", K |-> "k", L |-> "l", M |-> "m", N |-> "n",
     O |-> "o", P |-> "p", Q |-> "q", R |-> "r", S |-> "s", T |-> "t", U |-> "u",
     V |-> "v", W |-> "w", X |-> "x", Y |-> "y", Z |-> "z"]

LowerChar(c) == IF c \in DOMAIN UpperToLower THEN UpperToLower[c] ELSE c

AlnumChars ==
    {"a", "b", "c", "d", "e", "f", "g", "h", "i", "j", "k", "l", "m", "n", "o", "p",
     "q", "r", "s", "t", "u", "v", "w", "x", "y", "z",
     "0", "1", "2", "3", "4", "5", "6", "7", "8", "9"}

\* str.lower()
Lower(s) == [i \in 1..Len(s) |-> LowerChar(s[i])]

\* a in b
Contains(a, b) ==
    \E i \in 0..(Len(b) - Len(a)) : SubSeq(b, i + 1, i + Len(a)) = a

\* s.startswith(p)
StartsWith(s, p) == Len(p) <= Len(s) /\ SubSeq(s, 1, Len(p)) = p

\* s.replace(' ', '-')
ReplaceSpace(s) == [i \in 1..Len(s) |-> IF s[i] = " " THEN "-" ELSE s[i]]

IsAlnum(c) == c \in AlnumChars

\* re.sub(r'[^a-z0-9]', '', s)
KeepAlnum(s) == SelectSeq(s, IsAlnum)

(***************************************************************************)
(* Insertion-ordered dicts keyed by data: sequences of [k, v].             *)
(***************************************************************************)
Keys(d) == {d[i].k : i \in 1..Len(d)}

InDict(d, key) == \E i \in 1..Len(d) : d[i].k = key

Lookup(d, key) == d[CHOOSE i \in 1..Len(d) : d[i].k = key].v

\* d[key] = val : an existing key keeps its position
Put(d, key, val) ==
    IF InDict(d, key)
    THEN [i \in 1..Len(d) |-> IF d[i].k = key THEN [k |-> key, v |-> val] ELSE d[i]]
    ELSE Append(d, [k |-> key, v |-> val])

RECURSIVE Update(_, _)
\* d.update(e)
Update(d, e) ==
    IF e = <<>> THEN d ELSE Update(Put(d, e[1].k, e[1].v), Tail(e))

RECURSIVE SumSeq(_)
SumSeq(s) == IF s = <<>> THEN 0 ELSE s[1] + SumSeq(Tail(s))

\* F(v), with v evaluated once and bound as a value
Apply(F(_), v) == CHOOSE y \in {F(x) : x \in {v}} : TRUE

\* floor of the square root
ISqrt(v) == CHOOSE r \in 0..v : r * r <= v /\ v < (r + 1) * (r + 1)

(***************************************************************************)
(* CLASSIFICATION_CATEGORIES: weights in 1/10, in the dict's order.        *)
(***************************************************************************)
CLASSIFICATION_CATEGORIES ==
    << [name |-> "coding", formula |-> "weighted_average",
        benchmark_weights |-> << [k |-> "humaneval", v |-> 10],
                                 [k |-> "livecodebench", v |-> 8],
                                 [k |-> "artificial_analysis_coding_index", v |-> 9] >>],
       [name |-> "math", formula |-> "weighted_average",
        benchmark_weights |-> << [k |-> "gsm8k", v |-> 10],
                                 [k |-> "artificial_analysis_math_index", v |-> 9],
                                 [k |-> "math", v |-> 7] >>],
       [name |-> "reasoning", formula |-> "weighted_average_with_context",
        benchmark_weights |-> << [k |-> "mmlu", v |-> 10],
                                 [k |-> "mmlu_pro", v |-> 11],
                                 [k |-> "arc_challenge", v |-> 8],
                                 [k |-> "artificial_analysis_intelligence_index", v |-> 9],
                                 [k |-> "gpqa", v |-> 7] >>],
       [name |-> "creative_writing", formula |-> "interpolated_with_bonuses",
        benchmark_weights |-> << [k |-> "hellaswag", v |-> 6],
                                 [k |-> "truthfulqa", v |-> 4] >>],
       [name |-> "general", formula |-> "balanced_average",
        benchmark_weights |-> << [k |-> "mmlu", v |-> 8],
                                 [k |-> "hellaswag", v |-> 6] >>],
       [name |-> "question", formula |-> "accuracy_with_latency_penalty",
        benchmark_weights |-> << [k |-> "mmlu", v |-> 8],
                                 [k |-> "truthfulqa", v |-> 9],
                                 [k |-> "artificial_analysis_intelligence_index", v |-> 7] >>],
       [name |-> "chat", formula |-> "conversational_with_efficiency",
        benchmark_weights |-> << [k |-> "hellaswag", v |-> 7],
                                 [k |-> "truthfulqa", v |-> 6] >>] >>

CategoryNames == {CLASSIFICATION_CATEGORIES[i].name : i \in 1..Len(CLASSIFICATION_CATEGORIES)}

(***************************************************************************)
(* CategoryCalculator.                                                     *)
(* A benchmark entry of a benchmark record is [num |-> n] (a bare number), *)
(* [str |-> TRUE] (a text such as "86.4%") or [dict |-> TRUE] with the     *)
(* optional keys score and date.  An analytics evaluation is [num |-> n].  *)
(***************************************************************************)
\* the guard shared by the four readers of a benchmark-source score
InBenchmarks(model_data, benchmark) ==
    /\ Has(model_data, "benchmarks") /\ Truthy(model_data.benchmarks)
    /\ Has(model_data.benchmarks, "benchmarks")
    /\ Has(model_data.benchmarks.benchmarks, benchmark)

InAnalytics(model_data, benchmark) ==
    /\ Has(model_data, "analytics") /\ Truthy(model_data.analytics)
    /\ Has(model_data.analytics, "evaluations")
    /\ Has(model_data.analytics.evaluations, benchmark)

_extract_benchmark_score(model_data, benchmark) ==
    IF InBenchmarks(model_data, benchmark)
    THEN LET score_info == model_data.benchmarks.benchmarks[benchmark]
         IN  IF Has(score_info, "dict")
             THEN (IF Has(score_info, "score") THEN [num |-> score_info.score] ELSE None)
             ELSE score_info
    ELSE IF InAnalytics(model_data, benchmark)
         THEN model_data.analytics.evaluations[benchmark]
         ELSE None

_get_score_source(model_data, benchmark) ==
    IF InBenchmarks(model_data, benchmark) THEN "benchmarks"
    ELSE IF InAnalytics(model_data, benchmark) THEN "analytics"
    ELSE "unknown"

\* a day, or NoTime for None
_get_score_date(model_data, benchmark) ==
    IF /\ InBenchmarks(model_data, benchmark)
       /\ Has(model_data.benchmarks.benchmarks[benchmark], "dict")
    THEN Get(model_data.benchmarks.benchmarks[benchmark], "date", NoTime)
    ELSE IF /\ Has(model_data, "analytics") /\ Truthy(model_data.analytics)
            /\ Has(model_data.analytics, "metadata")
         THEN Get(model_data.analytics.metadata, "last_updated", NoTime)
         ELSE NoTime

\* a recency factor that falls by 0.1 with every 30 days of age
RecencyLinear(model_data, benchmark, today) ==
    LET score_date == _get_score_date(model_data, benchmark)
    IN  IF score_date = NoTime THEN 8
        ELSE Max(0, 10 - Max(0, today - score_date) \div 30)

\* in 1/10
_calculate_recency_factor(model_data, benchmark, today) ==
    LET score_date == _get_score_date(model_data, benchmark)
        days_old == today - score_date
    IN  IF score_date = NoTime THEN 8
        ELSE IF days_old <= 30 THEN 10
        ELSE IF days_old <= 90 THEN 9
        ELSE IF days_old <= 180 THEN 8
        ELSE 7

\* in 1/100
_get_quality_factor(model_data, benchmark) ==
    LET source == _get_score_source(model_data, benchmark)
    IN  IF source = "static" THEN 100
        ELSE IF source = "benchmarks" THEN 90
        ELSE IF source = "analytics" THEN 95
        ELSE 80

\* base_score and the result in 1/100 point
_apply_formula(base_score, model_data, category, formula) ==
    LET static_data == Get(model_data, "static", [x \in {} |-> 0])
        context_window == Get(static_data, "context_window", 4096)
        cost_per_1k == Get(static_data, "cost_in_per_1k", 100)
        latency_ms == Get(static_data, "avg_latency_ms", 2000)
    IN  IF formula = "weighted_average" THEN base_score
        ELSE IF formula = "weighted_average_with_context"
        THEN LET context_boost == Min(10000, context_window - 4096)   \* in 1/100000
             IN  Min(10000, base_score + (base_score * context_boost) \div 100000)
        ELSE IF formula = "interpolated_with_bonuses"
        THEN LET context_bonus == Min(1000, (context_window - 4000) \div 10)
                 cost_bonus == Max(0, 500 - cost_per_1k * 5)
             IN  Min(10000, base_score + context_bonus + cost_bonus)
        ELSE IF formula = "accuracy_with_latency_penalty"
        THEN LET latency_penalty == Max(0, ((latency_ms - 1000) * base_score) \div 10000)
             IN  Max(0, base_score - latency_penalty)
        ELSE IF formula = "conversational_with_efficiency"
        THEN LET cost_factor == 10000 + Max(0, (50 - cost_per_1k) * 40)    \* in 1/10000
                 speed_factor == 20000 + Max(0, 2000 - latency_ms)         \* in 1/20000
             IN  Min(10000, (((base_score * cost_factor) \div 10000) * speed_factor) \div 20000)
        ELSE base_score

\* the benchmarks of the category for which a score is found, in the config's order
Evidence(model_data, config) ==
    SelectSeq(config.benchmark_weights,
              LAMBDA bw : _extract_benchmark_score(model_data, bw.k) # None)

\* the contributing_scores entry of one benchmark
Contribution(model_data, bw, today) ==
    LET score == _extract_benchmark_score(model_data, bw.k).num
        recency_factor == _calculate_recency_factor(model_data, bw.k, today)
        quality_factor == _get_quality_factor(model_data, bw.k)
    IN  [score |-> score,
         weight |-> bw.v,
         source |-> _get_score_source(model_data, bw.k),
         date |-> _get_score_date(model_data, bw.k),
         adjusted_score |-> (score * recency_factor * quality_factor) \div 1000]

\* CategoryScoreOf with the confidence taken from the number of benchmarks found
CategoryScoreCountsBenchmarks(model_data, category, config, today, ev, contributing_scores) ==
    LET total_weighted_score ==
            SumSeq([i \in 1..Len(ev) |->
                       contributing_scores[ev[i].k].adjusted_score * ev[i].v])
        total_weight == SumSeq([i \in 1..Len(ev) |-> ev[i].v])
    IN  [score |-> _apply_formula(total_weighted_score \div total_weight,
                                  model_data, category, config.formula),
         confidence |-> Min((Len(ev) * 1000) \div Len(config.benchmark_weights), 1000),
         contributing_scores |-> contributing_scores,
         last_updated |-> today]

\* the CategoryScore built from the evidence ev and its contributing_scores
CategoryScoreOf(model_data, category, config, today, ev, contributing_scores) ==
    LET total_weighted_score ==
            SumSeq([i \in 1..Len(ev) |->
                       contributing_scores[ev[i].k].adjusted_score * ev[i].v])
        total_weight == SumSeq([i \in 1..Len(ev) |-> ev[i].v])
        all_weight == SumSeq([i \in 1..Len(config.benchmark_weights) |->
                                 config.benchmark_weights[i].v])
    IN  [score |-> _apply_formula(total_weighted_score \div total_weight,
                                  model_data, category, config.formula),
         confidence |-> Min((total_weight * 1000) \div all_weight, 1000),
         contributing_scores |-> contributing_scores,
         last_updated |-> today]

\* None, a CategoryScore, or Raised (a score that is a str: str * float)
_calculate_category_score(model_data, category, config, today) ==
    Apply(LAMBDA ev :
            IF \E i \in 1..Len(ev) :
                  Has(_extract_benchmark_score(model_data, ev[i].k), "str")
            THEN Raised
            ELSE IF ev = <<>> THEN None
            ELSE Apply(LAMBDA contributing_scores :
                         CategoryScoreOf(model_data, category, config, today, ev,
                                         contributing_scores),
                       [b \in {ev[i].k : i \in 1..Len(ev)} |->
                           Contribution(model_data,
                                        ev[CHOOSE i \in 1..Len(ev) : ev[i].k = b],
                                        today)]),
          Evidence(model_data, config))

\* Dict[str, CategoryScore] as a record over the scored categories, or Raised
calculate_scores(model_data, today) ==
    Apply(LAMBDA cs :
            IF \E i \in 1..Len(cs) : cs[i] = Raised THEN Raised
            ELSE [c \in {CLASSIFICATION_CATEGORIES[i].name :
                            i \in {j \in 1..Len(cs) : cs[j] # None}} |->
                     cs[CHOOSE i \in 1..Len(cs) :
                            CLASSIFICATION_CATEGORIES[i].name = c]],
          [i \in 1..Len(CLASSIFICATION_CATEGORIES) |->
              _calculate_category_score(model_data,
                                        CLASSIFICATION_CATEGORIES[i].name,
                                        CLASSIFICATION_CATEGORIES[i], today)])

\* calculate_overall_quality dividing by the number of sources there are
OverallQualityOfThree(model_sources) ==
    ((IF Truthy(Get(model_sources, "static", None)) THEN 900 ELSE 0)
     + (IF Truthy(Get(model_sources, "benchmarks", None)) THEN 800 ELSE 0)
     + (IF Truthy(Get(model_sources, "analytics", None)) THEN 850 ELSE 0)) \div 3

\* in 1/1000
calculate_overall_quality(model_sources) ==
    LET quality_scores ==
            (IF Truthy(Get(model_sources, "static", None)) THEN <<900>> ELSE <<>>)
         \o (IF Truthy(Get(model_sources, "benchmarks", None)) THEN <<800>> ELSE <<>>)
         \o (IF Truthy(Get(model_sources, "analytics", None)) THEN <<850>> ELSE <<>>)
    IN  IF quality_scores # <<>> THEN SumSeq(quality_scores) \div Len(quality_scores) ELSE 0

\* best_at, worst_at, performance_tier and category_breadth; the two rounded
\* averages (overall_score, avg_confidence) are left out of the record
calculate_performance_metadata(category_scores) ==
    LET cats == DOMAIN category_scores
        hi == CHOOSE s \in {category_scores[c].score : c \in cats} :
                  \A c \in cats : category_scores[c].score <= s
        lo == CHOOSE s \in {category_scores[c].score : c \in cats} :
                  \A c \in cats : category_scores[c].score >= s
        total == SumSeq([i \in 1..Len(CLASSIFICATION_CATEGORIES) |->
                    IF CLASSIFICATION_CATEGORIES[i].name \in cats
                    THEN category_scores[CLASSIFICATION_CATEGORIES[i].name].score ELSE 0])
    IN  [best_at |-> {c \in cats : category_scores[c].score >= hi - 500},
         worst_at |-> {c \in cats : category_scores[c].score <= lo + 1000},
         performance_tier |->
             IF total >= 8000 * Cardinality(cats) THEN "high"
             ELSE IF total >= 6000 * Cardinality(cats) THEN "medium" ELSE "low",
         category_breadth |-> Cardinality(cats)]

(***************************************************************************)
(* ModelMatcher.  static_data, benchmark_data and analytics_data are       *)
(* ordered dicts; ids, keys and display names are character sequences,     *)
(* providers are plain strings (the program only copies them).             *)
(***************************************************************************)
S_gpt == <<"g", "p", "t">>
S_openai == <<"o", "p", "e", "n", "a", "i">>
S_claude == <<"c", "l", "a", "u", "d", "e">>
S_anthropic == <<"a", "n", "t", "h", "r", "o", "p", "i", "c">>
S_gemini == <<"g", "e", "m", "i", "n", "i">>
S_google == <<"g", "o", "o", "g", "l", "e">>
S_llama == <<"l", "l", "a", "m", "a">>
S_meta == <<"m", "e", "t", "a">>

_normalize_for_matching(name) == KeepAlnum(Lower(name))

\* the first item of d, in order, that satisfies Test(key, value); 0 if none
FirstIndex(d, Test(_, _)) ==
    IF \E i \in 1..Len(d) : Test(d[i].k, d[i].v)
    THEN CHOOSE i \in 1..Len(d) :
             Test(d[i].k, d[i].v) /\ \A j \in 1..(i - 1) : ~Test(d[j].k, d[j].v)
    ELSE 0

\* Raised when display_name is JSON null (None.lower())
_find_benchmark_match(model_id, static_model, benchmark_data) ==
    IF InDict(benchmark_data, model_id) THEN Lookup(benchmark_data, model_id)
    ELSE IF Get(static_model, "display_name", <<>>) = Null THEN Raised
    ELSE LET display_name == Lower(Get(static_model, "display_name", <<>>))
             hit(bench_id, bench_data) ==
                 Contains(Lower(bench_id), display_name) \/ Contains(display_name, Lower(bench_id))
             i == FirstIndex(benchmark_data, hit)
         IN  IF i = 0 THEN None ELSE benchmark_data[i].v

_find_analytics_match(model_id, static_model, analytics_data) ==
    IF Get(static_model, "display_name", <<>>) = Null THEN Raised
    ELSE LET display_name == Lower(Get(static_model, "display_name", <<>>))
             normalized_display == _normalize_for_matching(display_name)
             hit(analytics_key, analytics_model) ==
                 \/ analytics_key = Lower(model_id)
                 \/ Contains(analytics_key, normalized_display)
                 \/ Contains(normalized_display, analytics_key)
             i == FirstIndex(analytics_data, hit)
         IN  IF i = 0 THEN None ELSE analytics_data[i].v

_find_analytics_match_for_benchmark(bench_key, bench_data, analytics_data) ==
    LET normalized_bench == _normalize_for_matching(bench_key)
        hit(analytics_key, analytics_model) ==
            LET normalized_analytics == _normalize_for_matching(analytics_key)
            IN  \/ normalized_analytics = normalized_bench
                \/ Contains(normalized_analytics, normalized_bench)
                \/ Contains(normalized_bench, normalized_analytics)
        i == FirstIndex(analytics_data, hit)
    IN  IF i = 0 THEN None ELSE analytics_data[i].v

\* the provider of a synthetic static record when the prefix rule goes first
SyntheticProviderPrefixFirst(bench_data, model_key) ==
    LET key == Lower(model_key)
    IN  IF StartsWith(key, S_gpt) \/ StartsWith(key, S_openai) THEN "openai"
        ELSE IF StartsWith(key, S_claude) \/ StartsWith(key, S_anthropic) THEN "anthropic"
        ELSE IF StartsWith(key, S_gemini) \/ StartsWith(key, S_google) THEN "google"
        ELSE IF StartsWith(key, S_llama) \/ StartsWith(key, S_meta) THEN "meta"
        ELSE IF Has(bench_data, "provider") THEN bench_data.provider
        ELSE "unknown"

\* the provider of a synthetic static record
SyntheticProvider(bench_data, model_key) ==
    LET key == Lower(model_key)
        by_prefix ==
            IF StartsWith(key, S_gpt) \/ StartsWith(key, S_openai) THEN "openai"
            ELSE IF StartsWith(key, S_claude) \/ StartsWith(key, S_anthropic) THEN "anthropic"
            ELSE IF StartsWith(key, S_gemini) \/ StartsWith(key, S_google) THEN "google"
            ELSE IF StartsWith(key, S_llama) \/ StartsWith(key, S_meta) THEN "meta"
            ELSE "unknown"
    IN  IF Has(bench_data, "provider") THEN bench_data.provider ELSE by_prefix

_create_synthetic_static(bench_data, model_key) ==
    LET pricing == Get(bench_data, "pricing_parsed", [x \in {} |-> 0])
    IN  [id |-> ReplaceSpace(Lower(model_key)),
         provider |-> SyntheticProvider(bench_data, model_key),
         display_name |-> Get(bench_data, "display_name", model_key),
         api_alias |-> ReplaceSpace(Lower(model_key)),
         open_source |-> FALSE,
         context_window |->
             IF Has(bench_data, "context_window") THEN bench_data.context_window
             ELSE Get(bench_data, "context_window_tokens", 4096),
         cost_in_per_1k |-> Get(pricing, "input_cost_per_1k", 100),
         cost_out_per_1k |-> Get(pricing, "output_cost_per_1k", 200),
         avg_latency_ms |-> 2000]

\* the keys the first pass marks as used: for each truthy match, the first key
\* whose value equals the matched record
UsedKeys(data, found) ==
    {data[FirstIndex(data, LAMBDA key, val : val = found[i])].k :
        i \in {j \in 1..Len(found) : Truthy(found[j])}}

RECURSIVE SecondPass(_, _, _, _)
\* the loop over benchmark_data.items() of the second pass
SecondPass(matched_models, rest, used_benchmark_keys, analytics_data) ==
    IF rest = <<>> THEN matched_models
    ELSE LET bench_key == rest[1].k
             bench_data == rest[1].v
         IN  IF bench_key \in used_benchmark_keys
             THEN SecondPass(matched_models, Tail(rest), used_benchmark_keys, analytics_data)
             ELSE SecondPass(
                    Put(matched_models, bench_key,
                        [static |-> _create_synthetic_static(bench_data, bench_key),
                         benchmarks |-> bench_data,
                         analytics |-> _find_analytics_match_for_benchmark(
                                           bench_key, bench_data, analytics_data)]),
                    Tail(rest), used_benchmark_keys, analytics_data)

\* [raised |-> FALSE, matched_models |-> ordered dict model_id -> bundle], or Raised
match_models(static_data, benchmark_data, analytics_data) ==
    LET benchmark_match == [i \in 1..Len(static_data) |->
            _find_benchmark_match(static_data[i].k, static_data[i].v, benchmark_data)]
        analytics_match == [i \in 1..Len(static_data) |->
            _find_analytics_match(static_data[i].k, static_data[i].v, analytics_data)]
        first_pass == [i \in 1..Len(static_data) |->
            [k |-> static_data[i].k,
             v |-> [static |-> static_data[i].v,
                    benchmarks |-> benchmark_match[i],
                    analytics |-> analytics_match[i]]]]
    IN  IF \E i \in 1..Len(static_data) :
               benchmark_match[i] = Raised \/ analytics_match[i] = Raised
        THEN Raised
        ELSE [raised |-> FALSE,
              matched_models |->
                  SecondPass(first_pass, benchmark_data,
                             UsedKeys(benchmark_data, benchmark_match), analytics_data)]

(***************************************************************************)
(* DataSourceManager and its three subclasses.  A manager is               *)
(* [last_update, data_quality]; a fetch returns the data and the manager   *)
(* as the fetch leaves it.                                                 *)
(***************************************************************************)
NewManager == [last_update |-> NoTime, data_quality |-> 0]

\* in 1/1000
_calculate_completeness(data, required_fields) ==
    LET present_fields ==
            SumSeq([i \in 1..Len(data) |->
                       Cardinality({f \in required_fields : Has(data[i].v, f)})])
        total_expected == Len(data) * Cardinality(required_fields)
    IN  IF total_expected > 0 THEN (present_fields * 1000) \div total_expected ELSE 0

\* in 1/1000; max_age is 30 days
_calculate_freshness(last_update, today) ==
    IF last_update = NoTime THEN 0
    ELSE IF today - last_update > 30 THEN 0
    ELSE Max(0, 1000 - ((today - last_update) * 1000) \div 30)

\* the top-level numbers of a record that lie in [0, 100], in 1/10000
NumbersInRange(rec) ==
    LET costs == {f \in {"cost_in_per_1k", "cost_out_per_1k"} \cap DOMAIN rec :
                     rec[f] >= 0 /\ rec[f] <= 1000000}
        counts == {f \in {"context_window", "avg_latency_ms"} \cap DOMAIN rec :
                     rec[f] >= 0 /\ rec[f] <= 100}
        pick(f) == IF f \in costs THEN <<rec[f]>>
                   ELSE IF f \in counts THEN <<rec[f] * 10000>> ELSE <<>>
    IN  pick("cost_in_per_1k") \o pick("cost_out_per_1k")
            \o pick("context_window") \o pick("avg_latency_ms")

RECURSIVE AllNumbers(_)
AllNumbers(data) ==
    IF data = <<>> THEN <<>> ELSE NumbersInRange(data[1].v) \o AllNumbers(Tail(data))

\* in 1/1000: 1 - std / 50, clamped to [0, 1]; 0.5 without numbers
_calculate_consistency(data) ==
    LET scores == AllNumbers(data)
        mean_score == SumSeq(scores) \div Len(scores)
        variance == SumSeq([i \in 1..Len(scores) |->
                               (scores[i] - mean_score) * (scores[i] - mean_score)])
                        \div Len(scores)
        std_score == ISqrt(variance)
    IN  IF scores = <<>> THEN 500
        ELSE Max(0, Min(1000, 1000 - std_score \div 500))

\* in 1/1000
calculate_quality(data, required_fields, last_update, today) ==
    IF data = <<>> THEN 0
    ELSE (_calculate_completeness(data, required_fields) * 500
          + _calculate_freshness(last_update, today) * 300
          + _calculate_consistency(data) * 200) \div 1000

RECURSIVE ModelsById(_, _)
\* the loop of StaticDataManager.fetch_data: data[model['id']] = model
ModelsById(data, models_list) ==
    IF models_list = <<>> THEN data
    ELSE ModelsById(IF Has(models_list[1], "id")
                    THEN Put(data, models_list[1].id, models_list[1]) ELSE data,
                    Tail(models_list))

\* file is [ok, models]: ok is FALSE when open() or json.load() raises
StaticFetch(file, mgr, today) ==
    IF ~file.ok THEN [data |-> <<>>, mgr |-> mgr]
    ELSE LET data == ModelsById(<<>>, file.models)
         IN  [data |-> data,
              mgr |-> [last_update |-> today,
                       data_quality |->
                           calculate_quality(data, {"id", "provider", "display_name"},
                                             today, today)]]

RECURSIVE MergeFiles(_, _)
\* the loop over glob.glob(pattern), for files of the flat shape
MergeFiles(data, files) ==
    IF files = <<>> THEN data
    ELSE MergeFiles(Update(data, files[1].data), Tail(files))

\* files is a sequence of [ok, data]: ok is FALSE when open() or json.load() raises
BenchmarkFetch(files, mgr, today) ==
    IF \E i \in 1..Len(files) : ~files[i].ok THEN [data |-> <<>>, mgr |-> mgr]
    ELSE LET data == MergeFiles(<<>>, files)
         IN  [data |-> data,
              mgr |-> [last_update |-> today,
                       data_quality |->
                           calculate_quality(data, {"benchmarks"}, today, today)]]

RECURSIVE RemoveAll(_, _)
\* s.replace(sub, '')
RemoveAll(s, sub) ==
    IF Len(s) < Len(sub) \/ s = <<>> THEN s
    ELSE IF SubSeq(s, 1, Len(sub)) = sub
         THEN RemoveAll(SubSeq(s, Len(sub) + 1, Len(s)), sub)
         ELSE <<s[1]>> \o RemoveAll(Tail(s), sub)

_normalize_model_name(name) ==
    KeepAlnum(RemoveAll(RemoveAll(RemoveAll(RemoveAll(Lower(name),
        S_openai \o <<"/">>), S_anthropic \o <<"/">>), S_google \o <<"/">>),
        S_meta \o <<"/">>))

RECURSIVE AnalyticsRecords(_, _, _)
\* the loop over api_data.get('data', [])
AnalyticsRecords(data, models, today) ==
    IF models = <<>> THEN data
    ELSE AnalyticsRecords(
            Put(data, _normalize_model_name(Get(models[1], "name", <<>>)),
                [evaluations |-> Get(models[1], "evaluations", [x \in {} |-> 0]),
                 pricing |-> Get(models[1], "pricing", [x \in {} |-> 0]),
                 performance |-> [tokens_per_second |->
                                      Get(models[1], "median_output_tokens_per_second", 0),
                                  time_to_first_token |->
                                      Get(models[1], "median_time_to_first_token_seconds", 0)],
                 metadata |-> [source |-> "analytics_ai", last_updated |-> today]]),
            Tail(models), today)

\* AnalyticsFetch without the test of response.status
AnalyticsFetchAnyStatus(has_key, response, mgr, today) ==
    IF ~has_key THEN [data |-> <<>>, mgr |-> mgr]
    ELSE LET data == AnalyticsRecords(<<>>, response.data, today)
         IN  [data |-> data,
              mgr |-> [last_update |-> today,
                       data_quality |->
                           calculate_quality(data, {"evaluations"}, today, today)]]

\* response is [status, data]; status 0 stands for a timeout or a connection error
AnalyticsFetch(has_key, response, mgr, today) ==
    IF ~has_key \/ response.status # 200 THEN [data |-> <<>>, mgr |-> mgr]
    ELSE LET data == AnalyticsRecords(<<>>, response.data, today)
         IN  [data |-> data,
              mgr |-> [last_update |-> today,
                       data_quality |->
                           calculate_quality(data, {"evaluations"}, today, today)]]

(***************************************************************************)
(* What the sources can hold: the catalog file, the benchmark directory    *)
(* and the analytics endpoint's answer are inputs of each pass.            *)
(***************************************************************************)
ID_gpt4 == <<"g", "p", "t", "-", "4">>
ID_claude == <<"c", "l", "a", "u", "d", "e">>
ID_other == <<"o", "t", "h", "e", "r">>
ID_gpt4_0613 == <<"g", "p", "t", "-", "4", "-", "0", "6", "1", "3">>

StaticGpt4 ==
    [id |-> ID_gpt4, provider |-> "openai", display_name |-> <<"G", "P", "T", "-", "4">>,
     context_window |-> 8192, cost_in_per_1k |-> 300, avg_latency_ms |-> 1500]

StaticClaude ==
    [id |-> ID_claude, provider |-> "anthropic",
     display_name |-> <<"C", "l", "a", "u", "d", "e">>,
     context_window |-> 200000, cost_in_per_1k |-> 30, avg_latency_ms |-> 900]

\* "display_name": null in the catalog
StaticNullName == [id |-> ID_other, provider |-> "other", display_name |-> Null]

\* scores in 1/100 point; an observation dated day 0, and one dated day 100;
\* truthfulqa is listed with a date and no score
BenchGpt4 ==
    [benchmarks |-> [humaneval |-> [dict |-> TRUE, score |-> 6700, date |-> 0],
                     mmlu |-> [num |-> 8600], gsm8k |-> [num |-> 9200],
                     truthfulqa |-> [dict |-> TRUE, date |-> 0]]]

\* hellaswag and mmlu given as fractions (0.95, 0.79); the record carries its
\* context window and the provider group it was listed under
BenchClaude ==
    [benchmarks |-> [humaneval |-> [dict |-> TRUE, score |-> 8500, date |-> 100],
                     hellaswag |-> [num |-> 95], mmlu |-> [num |-> 79]],
     context_window |-> 2048,
     provider |-> "other_notable"]

\* a score given as text
BenchClaudeText ==
    [benchmarks |-> [humaneval |-> [str |-> TRUE], hellaswag |-> [num |-> 9500]]]

FileMissing == [ok |-> FALSE, models |-> <<>>]

StaticFiles ==
    {FileMissing,
     [ok |-> TRUE, models |-> <<StaticGpt4, StaticClaude>>],
     [ok |-> TRUE, models |-> <<StaticNullName>>]}

FileBoth == [ok |-> TRUE, data |-> << [k |-> ID_gpt4, v |-> BenchGpt4],
                                      [k |-> ID_claude, v |-> BenchClaude] >>]
FileText == [ok |-> TRUE, data |-> << [k |-> ID_gpt4, v |-> BenchGpt4],
                                      [k |-> ID_claude, v |-> BenchClaudeText] >>]
FileBad == [ok |-> FALSE, data |-> <<>>]
\* a dated snapshot listed before the model it is a snapshot of, with the same figures
FileSnapshot == [ok |-> TRUE, data |-> << [k |-> ID_gpt4_0613, v |-> BenchGpt4],
                                          [k |-> ID_gpt4, v |-> BenchGpt4] >>]

BenchmarkDirs ==
    {<<FileBad>>, <<FileBoth>>, <<FileText>>, <<FileBoth, FileBad>>, <<FileSnapshot>>}

AnalyticsBody ==
    << [name |-> <<"G", "P", "T", "-", "4", " ", "T", "u", "r", "b", "o">>,
        evaluations |-> [truthfulqa |-> [num |-> 6400], mmlu |-> [num |-> 8300]]],
       [name |-> <<"O", "p", "e", "n", "A", "I", "/", "G", "P", "T", "-", "4">>,
        evaluations |-> [truthfulqa |-> [num |-> 5900], mmlu |-> [num |-> 8000]]] >>

\* an answer, and an error status that comes with a body
AnalyticsResponses ==
    {[status |-> 500, data |-> AnalyticsBody], [status |-> 200, data |-> AnalyticsBody]}

(***************************************************************************)
(* The query handlers, as functions of the state they read.                *)
(***************************************************************************)
NoResp == [op |-> "none"]

\* get_status
GetStatusResponse(client, up, store, models, mgrs) ==
    LET redis_count == IF client = "Redis" /\ up THEN Len(store) ELSE 0
        consolidated_count == IF redis_count = 0 THEN Len(models) ELSE redis_count
    IN  [op |-> "status", code |-> 200, status |-> "operational",
         total_models |-> consolidated_count,
         data_sources_status |->
             [src \in {"static", "benchmarks", "analytics"} |->
                 [quality |-> mgrs[src].data_quality,
                  last_update |-> mgrs[src].last_update]],
         data_quality |-> (mgrs["static"].data_quality + mgrs["benchmarks"].data_quality
                           + mgrs["analytics"].data_quality) \div 3]

\* get_model_scores: the HTTPException(404) is raised inside the try block, whose
\* `except Exception` turns whatever is raised there into a 500
GetModelScoresResponse(model_id, client, up, store, models) ==
    IF client = "Redis" /\ ~up
    THEN [op |-> "scores", model_id |-> model_id, code |-> 500, detail |-> "ConnectionError"]
    ELSE IF client = "Redis" /\ InDict(store, model_id)
    THEN LET model_data == Lookup(store, model_id).json
         IN  [op |-> "scores", model_id |-> model_id, code |-> 200,
              category_scores |-> Get(model_data, "category_scores", [x \in {} |-> 0]),
              data_quality |-> Get(model_data, "overall_quality", 0),
              last_updated |-> Get(model_data, "last_consolidated", NoTime)]
    ELSE IF InDict(models, model_id)
    THEN LET model_data == Lookup(models, model_id)
         IN  [op |-> "scores", model_id |-> model_id, code |-> 200,
              category_scores |-> model_data.category_scores,
              data_quality |-> model_data.overall_quality,
              last_updated |-> model_data.last_consolidated]
    ELSE [op |-> "scores", model_id |-> model_id, code |-> 500,
          detail |-> "404: Model not found"]

\* one entry of ranked_models
RankEntry(model_data, category) ==
    [model_id |-> model_data.model_id,
     display_name |-> model_data.display_name,
     provider |-> model_data.provider,
     score |-> model_data.category_scores[category].score,
     confidence |-> model_data.category_scores[category].confidence]

RECURSIVE RankedFrom(_, _)
\* the entries of the models that have a score for the category, in the order read
RankedFrom(records, category) ==
    IF records = <<>> THEN <<>>
    ELSE (IF Has(records[1].category_scores, category)
          THEN <<RankEntry(records[1], category)>> ELSE <<>>)
         \o RankedFrom(Tail(records), category)

\* x goes behind the entries that score at least as much
InsertByScore(sorted, x) ==
    LET n == Cardinality({i \in 1..Len(sorted) : sorted[i].score >= x.score})
    IN  SubSeq(sorted, 1, n) \o <<x>> \o SubSeq(sorted, n + 1, Len(sorted))

RECURSIVE SortByScore(_, _)
\* list.sort(key=score, reverse=True): stable
SortByScore(sorted, rest) ==
    IF rest = <<>> THEN sorted
    ELSE SortByScore(InsertByScore(sorted, rest[1]), Tail(rest))

\* ranked_models[:limit]
Slice(ranked_models, limit) == SubSeq(ranked_models, 1, Min(limit, Len(ranked_models)))

\* get_category_rankings.  nread is the number of redis_client.get calls that answer
\* before one raises (Len(store) when none raises); the keys come in the store's order
GetCategoryRankingsResponse(category, limit, nread, client, up, store, models) ==
    IF category \notin CategoryNames
    THEN [op |-> "rankings", category |-> category, limit |-> limit, code |-> 500,
          detail |-> "400: Invalid category"]
    ELSE LET from_redis ==
                 IF client = "Redis" /\ up
                 THEN RankedFrom([i \in 1..nread |-> store[i].v.json], category)
                 ELSE <<>>
             ranked_models ==
                 IF from_redis # <<>> THEN from_redis
                 ELSE RankedFrom([i \in 1..Len(models) |-> models[i].v], category)
             sorted == SortByScore(<<>>, ranked_models)
         IN  [op |-> "rankings", category |-> category, limit |-> limit, code |-> 200,
              rankings |-> Slice(sorted, limit),
              total_models |-> Len(sorted)]

(***************************************************************************)
(* consolidate_data, one bundle of its loop.                               *)
(***************************************************************************)
Provenance(mgrs) ==
    [src \in {"static", "benchmarks", "analytics"} |->
        [source |-> src,
         last_updated |-> mgrs[src].last_update,
         data_quality |-> mgrs[src].data_quality]]

\* EnhancedModel(...)
Assemble(model_id, model_sources, category_scores, mgrs, today) ==
    [model_id |-> model_id,
     provider |-> Get(model_sources.static, "provider", "unknown"),
     display_name |-> Get(model_sources.static, "display_name", model_id),
     static_data |-> model_sources.static,
     category_scores |-> category_scores,
     data_provenance |-> Provenance(mgrs),
     performance_metadata |-> calculate_performance_metadata(category_scores),
     last_consolidated |-> today,
     overall_quality |-> calculate_overall_quality(model_sources)]

\* ProcessBundle with a handler that stores a record without scores for the
\* bundle whose scoring raised
ProcessBundleKeepsFailed(model_id, model_sources, mgrs, today) ==
    Apply(LAMBDA category_scores :
            IF category_scores = Raised
            THEN [outcome |-> "added",
                  enhanced_model |->
                      [model_id |-> model_id,
                       category_scores |-> [c \in {} |-> 0],
                       overall_quality |-> calculate_overall_quality(model_sources)]]
            ELSE IF DOMAIN category_scores = {} THEN [outcome |-> "skipped"]
            ELSE [outcome |-> "added",
                  enhanced_model |->
                      Assemble(model_id, model_sources, category_scores, mgrs, today)],
          calculate_scores(model_sources, today))

\* the body of the loop: "raised" when the try block raises (the except clause logs
\* and goes on), "skipped" when no category is scored, else the EnhancedModel
ProcessBundle(model_id, model_sources, mgrs, today) ==
    Apply(LAMBDA category_scores :
            IF category_scores = Raised THEN [outcome |-> "raised"]
            ELSE IF DOMAIN category_scores = {} THEN [outcome |-> "skipped"]
            ELSE [outcome |-> "added",
                  enhanced_model |->
                      Assemble(model_id, model_sources, category_scores, mgrs, today)],
          calculate_scores(model_sources, today))

(***************************************************************************)
(* The state machine.                                                      *)
(*                                                                         *)
(* The handlers and consolidate_data are coroutines of one event loop.     *)
(* consolidate_data suspends only inside AnalyticsAPIManager.fetch_data    *)
(* (the aiohttp request, made when an API key is set): the two file        *)
(* fetches before it return without suspending, and from the answer to     *)
(* its return it runs without an await, so no handler and no other pass    *)
(* runs in between (Busy).  Redis and the clock are outside the process.   *)
(* A handler's response is in `resp` until the caller has received it; the *)
(* added background task starts after the response has been sent.          *)
(***************************************************************************)
DayStep == 31       \* days per clock advance
StartDay == 100     \* the day the process starts

PassIds == 1..MaxPasses

Busy == \E p \in PassIds : passes[p].pc \in {"fetching", "matching", "processing"}

NoHistory == [by |-> 0]

\* analytics_data without the time of the fetch
Evaluations(analytics_data) ==
    [i \in 1..Len(analytics_data) |->
        [k |-> analytics_data[i].k, v |-> analytics_data[i].v.evaluations]]

\* the state after the module is imported; whether ANALYTICS_API_KEY is set is
\* read once, by AnalyticsAPIManager.__init__
Init ==
    /\ started = FALSE
    /\ api_key \in BOOLEAN
    /\ redis_client = "None"
    /\ redisStore = <<>>
    /\ global_consolidated_models = <<>>
    /\ outputFile = [written |-> FALSE]
    /\ managers = [src \in {"static", "benchmarks", "analytics"} |-> NewManager]
    /\ now = StartDay
    /\ passes = [p \in PassIds |-> [pc |-> "none"]]
    /\ resp = NoResp
    /\ hist = NoHistory

\* startup_event: redis_client.ping() decides the global; the first pass is created
Startup ==
    /\ resp = NoResp
    /\ ~started
    /\ started' = TRUE
    /\ \E ping_ok \in BOOLEAN : redis_client' = IF ping_ok THEN "Redis" ELSE "None"
    /\ passes' = [passes EXCEPT ![1] = [pc |-> "created"]]
    /\ UNCHANGED <<resp, api_key, redisStore, global_consolidated_models,
                   outputFile, managers, now, hist>>

\* trigger_consolidation: the task is added and the acceptance returned
TriggerConsolidation ==
    /\ started /\ ~Busy /\ resp = NoResp
    /\ \E p \in PassIds :
          /\ passes[p].pc = "none"
          /\ \A q \in 1..(p - 1) : passes[q].pc # "none"
          /\ passes' = [passes EXCEPT ![p] = [pc |-> "created"]]
    /\ resp' = [op |-> "consolidate", code |-> 200,
                message |-> "Data consolidation started", timestamp |-> now]
    /\ UNCHANGED <<started, api_key, redis_client, redisStore,
                   global_consolidated_models, outputFile, managers, now, hist>>

\* consolidate_data from its start to the return of
\* `await static_manager.fetch_data()`, which reads the catalog without suspending;
\* the event loop starts the tasks in the order in which they were created
PassStart(p) ==
    /\ resp = NoResp
    /\ ~Busy
    /\ passes[p].pc = "created"
    /\ \A q \in 1..(p - 1) : passes[q].pc # "created"
    /\ \E file \in StaticFiles :
          LET s == StaticFetch(file, managers["static"], now)
          IN  /\ managers' = [managers EXCEPT !["static"] = s.mgr]
              /\ passes' = [passes EXCEPT ![p] =
                    [pc |-> "fetching", static_data |-> s.data]]
    /\ UNCHANGED <<resp, started, api_key, redis_client, redisStore,
                   global_consolidated_models, outputFile, now, hist>>

\* PassFetch with the analytics request sent before the benchmark files are read
PassFetchRequestsFirst(p) ==
    /\ resp = NoResp
    /\ passes[p].pc = "fetching"
    /\ \E files \in BenchmarkDirs :
          LET b == BenchmarkFetch(files, managers["benchmarks"], now)
              a == AnalyticsFetch(FALSE, [status |-> 0], managers["analytics"], now)
          IN  /\ managers' = IF api_key THEN managers
                             ELSE [managers EXCEPT !["benchmarks"] = b.mgr]
              /\ passes' = [passes EXCEPT ![p] =
                    IF api_key
                    THEN [pc |-> "awaiting", static_data |-> passes[p].static_data]
                    ELSE [pc |-> "matching", static_data |-> passes[p].static_data,
                          benchmark_data |-> b.data, analytics_data |-> a.data]]
    /\ UNCHANGED <<resp, started, api_key, redis_client, redisStore,
                   global_consolidated_models, outputFile, now, hist>>

\* `await benchmark_manager.fetch_data()`, which reads the files without
\* suspending, then `await analytics_manager.fetch_data()` to the await of the
\* request (with an API key) or to the call of match_models (without one)
PassFetch(p) ==
    /\ resp = NoResp
    /\ passes[p].pc = "fetching"
    /\ \E files \in BenchmarkDirs :
          LET b == BenchmarkFetch(files, managers["benchmarks"], now)
              a == AnalyticsFetch(FALSE, [status |-> 0], managers["analytics"], now)
          IN  /\ managers' = [managers EXCEPT !["benchmarks"] = b.mgr]
              /\ passes' = [passes EXCEPT ![p] =
                    IF api_key
                    THEN [pc |-> "awaiting", static_data |-> passes[p].static_data,
                          benchmark_data |-> b.data]
                    ELSE [pc |-> "matching", static_data |-> passes[p].static_data,
                          benchmark_data |-> b.data, analytics_data |-> a.data]]
    /\ UNCHANGED <<resp, started, api_key, redis_client, redisStore,
                   global_consolidated_models, outputFile, now, hist>>

\* the analytics request ends: an answer, an error status or a timeout
PassResume(p) ==
    /\ resp = NoResp
    /\ ~Busy
    /\ passes[p].pc = "awaiting"
    /\ \E response \in AnalyticsResponses :
          LET a == AnalyticsFetch(TRUE, response, managers["analytics"], now)
          IN  /\ managers' = [managers EXCEPT !["analytics"] = a.mgr]
              /\ passes' = [passes EXCEPT ![p] =
                    [pc |-> "matching", static_data |-> passes[p].static_data,
                     benchmark_data |-> passes[p].benchmark_data,
                     analytics_data |-> a.data]]
    /\ UNCHANGED <<resp, started, api_key, redis_client, redisStore,
                   global_consolidated_models, outputFile, now, hist>>

\* PassMatch with an error handler that empties the map when match_models raises
PassMatchClearsOnError(p) ==
    /\ resp = NoResp
    /\ passes[p].pc = "matching"
    /\ global_consolidated_models' =
          IF match_models(passes[p].static_data, passes[p].benchmark_data,
                          passes[p].analytics_data).raised
          THEN <<>> ELSE global_consolidated_models
    /\ LET m == match_models(passes[p].static_data, passes[p].benchmark_data,
                             passes[p].analytics_data)
       IN  passes' = [passes EXCEPT ![p] =
              IF m.raised THEN [pc |-> "raised", error |-> "match_models"]
              ELSE [pc |-> "processing",
                    static_data |-> passes[p].static_data,
                    benchmark_data |-> passes[p].benchmark_data,
                    analytics_data |-> passes[p].analytics_data,
                    matched_models |-> m.matched_models,
                    done |-> 0,
                    consolidated_models |-> <<>>,
                    failed |-> {},
                    uncached |-> {}]]
    /\ UNCHANGED <<resp, started, api_key, redis_client, redisStore,
                   outputFile, managers, now, hist>>

\* match_models; what it raises leaves consolidate_data through `except: raise`
PassMatch(p) ==
    /\ resp = NoResp
    /\ passes[p].pc = "matching"
    /\ LET m == match_models(passes[p].static_data, passes[p].benchmark_data,
                             passes[p].analytics_data)
       IN  passes' = [passes EXCEPT ![p] =
              IF m.raised THEN [pc |-> "raised", error |-> "match_models"]
              ELSE [pc |-> "processing",
                    static_data |-> passes[p].static_data,
                    benchmark_data |-> passes[p].benchmark_data,
                    analytics_data |-> passes[p].analytics_data,
                    matched_models |-> m.matched_models,
                    done |-> 0,
                    consolidated_models |-> <<>>,
                    failed |-> {},
                    uncached |-> {}]]
    /\ UNCHANGED <<resp, started, api_key, redis_client, redisStore,
                   global_consolidated_models, outputFile, managers, now, hist>>

\* PassProcess with the cache written before the record is put in the pass's
\* dict: a write that raises leaves the record out
PassProcessCachesFirst(p, setex_ok) ==
    /\ resp = NoResp
    /\ passes[p].pc = "processing"
    /\ passes[p].done < Len(passes[p].matched_models)
    /\ \E item \in {passes[p].matched_models[passes[p].done + 1]} :
       \E r \in {ProcessBundle(item.k, item.v, managers, now)} :
       LET added == r.outcome = "added"
           setex == added /\ redis_client = "Redis"
       IN  /\ passes' = [passes EXCEPT ![p] =
                 [passes[p] EXCEPT
                    !.done = @ + 1,
                    !.consolidated_models =
                        IF added /\ (setex => setex_ok)
                        THEN Put(@, item.k, r.enhanced_model) ELSE @,
                    !.failed = IF r.outcome = "raised" THEN @ \cup {item.k} ELSE @,
                    !.uncached = IF setex /\ ~setex_ok THEN @ \cup {item.k} ELSE @]]
           /\ redisStore' =
                 IF setex /\ setex_ok
                 THEN Put(redisStore, item.k, [json |-> r.enhanced_model, by |-> p])
                 ELSE redisStore
    /\ UNCHANGED <<resp, started, api_key, redis_client, global_consolidated_models,
                   outputFile, managers, now, hist>>

\* one iteration of `for model_id, model_sources in matched_models.items()`;
\* setex_ok is FALSE when redis_client.setex raises
PassProcess(p, setex_ok) ==
    /\ resp = NoResp
    /\ passes[p].pc = "processing"
    /\ passes[p].done < Len(passes[p].matched_models)
    /\ \E item \in {passes[p].matched_models[passes[p].done + 1]} :
       \E r \in {ProcessBundle(item.k, item.v, managers, now)} :
       LET added == r.outcome = "added"
           setex == added /\ redis_client = "Redis"
       IN  /\ passes' = [passes EXCEPT ![p] =
                 [passes[p] EXCEPT
                    !.done = @ + 1,
                    !.consolidated_models =
                        IF added THEN Put(@, item.k, r.enhanced_model) ELSE @,
                    !.failed = IF r.outcome = "raised" THEN @ \cup {item.k} ELSE @,
                    !.uncached = IF setex /\ ~setex_ok THEN @ \cup {item.k} ELSE @]]
           /\ redisStore' =
                 IF setex /\ setex_ok
                 THEN Put(redisStore, item.k, [json |-> r.enhanced_model, by |-> p])
                 ELSE redisStore
    /\ UNCHANGED <<resp, started, api_key, redis_client, global_consolidated_models,
                   outputFile, managers, now, hist>>

\* PassPublish merging the pass's records into the map instead of replacing it
PassPublishMerges(p, disk_ok) ==
    /\ resp = NoResp
    /\ passes[p].pc = "processing"
    /\ passes[p].done = Len(passes[p].matched_models)
    /\ global_consolidated_models' =
          Update(global_consolidated_models, passes[p].consolidated_models)
    /\ outputFile' = IF disk_ok
                     THEN [written |-> TRUE, content |-> passes[p].consolidated_models]
                     ELSE outputFile
    /\ passes' = [passes EXCEPT ![p] =
          IF disk_ok THEN [pc |-> "returned"]
          ELSE [pc |-> "raised", error |-> "output file"]]
    /\ hist' = [by |-> p,
                rerun |-> /\ hist.by # 0
                          /\ hist.static_data = passes[p].static_data
                          /\ hist.benchmark_data = passes[p].benchmark_data
                          /\ Evaluations(hist.analytics_data)
                               = Evaluations(passes[p].analytics_data),
                prev_day |-> IF hist.by # 0 THEN hist.day ELSE NoTime,
                static_data |-> passes[p].static_data,
                benchmark_data |-> passes[p].benchmark_data,
                analytics_data |-> passes[p].analytics_data,
                matched |-> Keys(passes[p].matched_models),
                failed |-> passes[p].failed,
                uncached |-> passes[p].uncached,
                day |-> now,
                file_error |-> ~disk_ok]
    /\ UNCHANGED <<resp, started, api_key, redis_client, redisStore, managers, now>>

\* after the loop: the global is replaced, then the output file is written;
\* disk_ok is FALSE when open() or json.dump() raises
PassPublish(p, disk_ok) ==
    /\ resp = NoResp
    /\ passes[p].pc = "processing"
    /\ passes[p].done = Len(passes[p].matched_models)
    /\ global_consolidated_models' = passes[p].consolidated_models
    /\ outputFile' = IF disk_ok
                     THEN [written |-> TRUE, content |-> passes[p].consolidated_models]
                     ELSE outputFile
    /\ passes' = [passes EXCEPT ![p] =
          IF disk_ok THEN [pc |-> "returned"]
          ELSE [pc |-> "raised", error |-> "output file"]]
    /\ hist' = [by |-> p,
                rerun |-> /\ hist.by # 0
                          /\ hist.static_data = passes[p].static_data
                          /\ hist.benchmark_data = passes[p].benchmark_data
                          /\ Evaluations(hist.analytics_data)
                               = Evaluations(passes[p].analytics_data),
                prev_day |-> IF hist.by # 0 THEN hist.day ELSE NoTime,
                static_data |-> passes[p].static_data,
                benchmark_data |-> passes[p].benchmark_data,
                analytics_data |-> passes[p].analytics_data,
                matched |-> Keys(passes[p].matched_models),
                failed |-> passes[p].failed,
                uncached |-> passes[p].uncached,
                day |-> now,
                file_error |-> ~disk_ok]
    /\ UNCHANGED <<resp, started, api_key, redis_client, redisStore, managers, now>>

GetStatus ==
    /\ started /\ ~Busy /\ resp = NoResp
    /\ \E keys_ok \in BOOLEAN :
          resp' = GetStatusResponse(redis_client, keys_ok, redisStore,
                                    global_consolidated_models, managers)
    /\ UNCHANGED <<started, api_key, redis_client, redisStore,
                   global_consolidated_models, outputFile, managers, now, passes, hist>>

QueryIds == {ID_gpt4, ID_other}

\* get_model_scores as a read-through cache: a record found only in the map is
\* written to the cache
GetModelScoresFillsCache ==
    /\ started /\ ~Busy /\ resp = NoResp
    /\ \E model_id \in QueryIds, get_ok \in BOOLEAN :
          /\ resp' = GetModelScoresResponse(model_id, redis_client, get_ok, redisStore,
                                            global_consolidated_models)
          /\ redisStore' =
                IF /\ redis_client = "Redis" /\ get_ok
                   /\ ~InDict(redisStore, model_id)
                   /\ InDict(global_consolidated_models, model_id)
                THEN Put(redisStore, model_id,
                         [json |-> Lookup(global_consolidated_models, model_id),
                          by |-> hist.by])
                ELSE redisStore
    /\ UNCHANGED <<started, api_key, redis_client, global_consolidated_models,
                   outputFile, managers, now, passes, hist>>

GetModelScores ==
    /\ started /\ ~Busy /\ resp = NoResp
    /\ \E model_id \in QueryIds, get_ok \in BOOLEAN :
          resp' = GetModelScoresResponse(model_id, redis_client, get_ok, redisStore,
                                         global_consolidated_models)
    /\ UNCHANGED <<started, api_key, redis_client, redisStore,
                   global_consolidated_models, outputFile, managers, now, passes, hist>>

QueryCategories == {"coding", "poetry"}

\* nread keys are read before a call of redis_client raises (all of them when
\* none does)
GetCategoryRankings ==
    /\ started /\ ~Busy /\ resp = NoResp
    /\ \E category \in QueryCategories, limit \in 1..MaxLimit, nread \in 0..Len(redisStore) :
          /\ nread < Len(redisStore) => redis_client = "Redis"
          /\ resp' = GetCategoryRankingsResponse(category, limit, nread, redis_client,
                                                 TRUE, redisStore,
                                                 global_consolidated_models)
    /\ UNCHANGED <<started, api_key, redis_client, redisStore, global_consolidated_models,
                   outputFile, managers, now, passes, hist>>

\* the caller receives the response
Respond ==
    /\ resp # NoResp
    /\ resp' = NoResp
    /\ UNCHANGED <<started, api_key, redis_client, redisStore,
                   global_consolidated_models, outputFile, managers, now, passes, hist>>

\* DayStep days pass while no pass is under way; the TTL of every key
\* (cache.policies.models, 3600 s) has run out by then
Tick ==
    /\ resp = NoResp
    /\ \A p \in PassIds : passes[p].pc \in {"none", "returned", "raised"}
    /\ now < StartDay + MaxTicks * DayStep
    /\ now' = now + DayStep
    /\ redisStore' = <<>>
    /\ UNCHANGED <<resp, started, api_key, redis_client, global_consolidated_models,
                   outputFile, managers, passes, hist>>

Next ==
    \/ Startup
    \/ TriggerConsolidation
    \/ \E p \in PassIds : PassStart(p)
    \/ \E p \in PassIds : PassFetch(p)
    \/ \E p \in PassIds : PassResume(p)
    \/ \E p \in PassIds : PassMatch(p)
    \/ \E p \in PassIds, setex_ok \in BOOLEAN : PassProcess(p, setex_ok)
    \/ \E p \in PassIds, disk_ok \in BOOLEAN : PassPublish(p, disk_ok)
    \/ GetStatus
    \/ GetModelScores
    \/ GetCategoryRankings
    \/ Respond
    \/ Tick

Spec == Init /\ [][Next]_vars

(***************************************************************************)
(* The claims.                                                             *)
(***************************************************************************)
Published == hist.by # 0

\* C1: once a pass has published, the records observable through the cache keys
\* model:<id> are those of that one pass: no key written by another pass is left
C1_CacheIsOnePass ==
    (Published /\ ~Busy /\ redis_client = "Redis")
        => \A i \in 1..Len(redisStore) : redisStore[i].v.by = hist.by

\* C2: GetModelScores of a model that is in the in-process map answers 200, also
\* when the cache that was reachable at startup no longer answers
C2_CacheDownFallsBack ==
    (resp.op = "scores" /\ InDict(global_consolidated_models, resp.model_id))
        => resp.code = 200

\* the bundles match_models makes of the data a pass fetched
Matched(h) == match_models(h.static_data, h.benchmark_data, h.analytics_data).matched_models

\* what C3 says of a step that publishes: h is the publishing pass's history and
\* models the map it leaves
PublishedOthers(h, models) ==
    \A i \in 1..Len(Matched(h)) :
       LET model_id == Matched(h)[i].k
           cs == calculate_scores(Matched(h)[i].v, h.day)
       IN  /\ (cs = Raised) = (model_id \in h.failed)
           /\ cs = Raised => ~InDict(models, model_id)
           /\ (cs # Raised /\ DOMAIN cs # {}) =>
                 /\ InDict(models, model_id)
                 /\ Lookup(models, model_id).category_scores = cs

\* C3: a bundle whose scoring raises is caught and leaves no record, every other
\* bundle that scores a category is in the map the pass publishes, with its scores,
\* and no pass ends on a bundle's error
C3_FailedBundleSkipped ==
    [][/\ \A p \in PassIds :
             passes'[p].pc = "raised"
                 => passes'[p].error \in {"match_models", "output file"}
       /\ hist' # hist => PublishedOthers(hist', global_consolidated_models')]_vars

\* a pass published the other bundle although the scoring of one had raised
C3_Witness ==
    /\ Published
    /\ hist.failed # {}
    /\ global_consolidated_models # <<>>
    /\ passes[hist.by].pc = "returned"

\* C4: a fetch that fails returns an empty map, whatever the other fetches do, and
\* a pass that goes on with an empty source is not aborted by the matcher unless
\* the catalog itself holds a record that makes it raise
C4_FailedFetchIsEmpty ==
    /\ \A file \in StaticFiles :
          ~file.ok => StaticFetch(file, managers["static"], now).data = <<>>
    /\ \A files \in BenchmarkDirs :
          (\E i \in 1..Len(files) : ~files[i].ok)
              => BenchmarkFetch(files, managers["benchmarks"], now).data = <<>>
    /\ \A response \in AnalyticsResponses :
          response.status # 200
              => AnalyticsFetch(api_key, response, managers["analytics"], now).data = <<>>
    /\ \A p \in PassIds :
          (/\ passes[p].pc = "matching"
           /\ match_models(passes[p].static_data, passes[p].benchmark_data,
                           passes[p].analytics_data).raised)
              => \E i \in 1..Len(passes[p].static_data) :
                    passes[p].static_data[i].v.display_name = Null
    /\ \A p \in PassIds :
          passes[p].pc = "raised" => passes[p].error \in {"match_models", "output file"}

\* a pass has published the benchmark models while the catalog and the analytics
\* fetch had failed
C4_Witness ==
    /\ Published
    /\ hist.static_data = <<>>
    /\ hist.analytics_data = <<>>
    /\ hist.benchmark_data # <<>>
    /\ Keys(global_consolidated_models) = Keys(hist.benchmark_data)

\* C5: no pass ends in an error because the output file could not be written
C5_SnapshotFailureAbsorbed ==
    \A p \in PassIds : passes[p].pc = "raised" => passes[p].error # "output file"

\* C6: GetModelScores of an id that is neither in the cache nor in the map, the
\* cache having answered, ends with 404
C6_UnknownIdIsNotFound ==
    (/\ resp.op = "scores"
     /\ ~InDict(global_consolidated_models, resp.model_id)
     /\ ~(redis_client = "Redis" /\ InDict(redisStore, resp.model_id))
     /\ ~(resp.code = 500 /\ resp.detail = "ConnectionError"))
        => resp.code = 404

\* C7: GetCategoryRankings of a category that is not configured ends with 404
C7_UnknownCategoryIsNotFound ==
    (resp.op = "rankings" /\ resp.category \notin CategoryNames) => resp.code = 404

\* the records with a score for category that the cache holds, and those the map holds
StoredWith(category) ==
    LET cached == {redisStore[i].v.json : i \in 1..Len(redisStore)}
        mapped == {global_consolidated_models[i].v :
                      i \in 1..Len(global_consolidated_models)}
        with(S) == {m \in S : category \in DOMAIN m.category_scores}
    IN  IF redis_client = "Redis" THEN {with(cached), with(mapped)} ELSE {with(mapped)}

\* the response is the ranking of the records of stored
IsRankingOf(stored) ==
    LET r == resp.rankings
        n == Cardinality({m.model_id : m \in stored})
    IN  /\ \A i, j \in 1..Len(r) : i < j => r[i].score >= r[j].score
        /\ Len(r) = Min(resp.limit, n)
        /\ \A i, j \in 1..Len(r) : i # j => r[i].model_id # r[j].model_id
        /\ \A i \in 1..Len(r) :
              \E m \in stored :
                 /\ m.model_id = r[i].model_id
                 /\ m.category_scores[resp.category].score = r[i].score
        /\ \A m \in stored :
              (\A i \in 1..Len(r) : r[i].model_id # m.model_id)
                  => \A i \in 1..Len(r) :
                        r[i].score >= m.category_scores[resp.category].score
        /\ resp.total_models = n

\* C8: a ranking is sorted by score, highest first, holds the min(limit, n) best of
\* the n stored models that have a score for the category, and reports n as
\* total_models; the stored models are those of the cache or those of the map
C8_RankingIsTopOfStored ==
    (resp.op = "rankings" /\ resp.code = 200)
        => \E stored \in StoredWith(resp.category) : IsRankingOf(stored)

\* C9: GetStatus after a pass whose three sources returned no data reports no
\* model and "operational"
C9_EmptyPassReportsZero ==
    (/\ resp.op = "status"
     /\ Published
     /\ hist.static_data = <<>>
     /\ hist.benchmark_data = <<>>
     /\ hist.analytics_data = <<>>)
        => resp.total_models = 0 /\ resp.status = "operational"

\* what C10 compares: the published ids, each with its scores, confidences and
\* overall_quality
ScoresOf(models) ==
    {[model_id |-> models[i].k,
      overall_quality |-> models[i].v.overall_quality,
      category_scores |->
          [c \in DOMAIN models[i].v.category_scores |->
              [score |-> models[i].v.category_scores[c].score,
               confidence |-> models[i].v.category_scores[c].confidence]]] :
        i \in 1..Len(models)}

\* C10 as stated: a pass over the data of the pass that published before it
\* publishes the same ids with the same scores, confidences and overall_quality
C10_RerunPublishesSame ==
    [][(hist' # hist /\ hist'.rerun)
          => ScoresOf(global_consolidated_models') = ScoresOf(global_consolidated_models)]_vars

\* the age bracket of an observation: at most 30, 90, 180 days, or older
Bracket(date, today) ==
    IF date = NoTime THEN 0
    ELSE IF today - date <= 30 THEN 1
    ELSE IF today - date <= 90 THEN 2
    ELSE IF today - date <= 180 THEN 3
    ELSE 4

WeightedBenchmarks ==
    UNION {Keys(CLASSIFICATION_CATEGORIES[i].benchmark_weights) :
              i \in 1..Len(CLASSIFICATION_CATEGORIES)}

\* every observation of the pass of history h is in the same age bracket on the
\* day of that pass as on the day of the pass before it
SameBrackets(h) ==
    \A i \in 1..Len(Matched(h)), b \in WeightedBenchmarks :
       Bracket(_get_score_date(Matched(h)[i].v, b), h.prev_day)
           = Bracket(_get_score_date(Matched(h)[i].v, b), h.day)

\* C10, amended: a pass over the data of the pass before it, run while every
\* observation is still in the age bracket it was in, publishes the same ids with
\* the same scores, confidences and overall_quality
C10_RerunSameBrackets ==
    [][(hist' # hist /\ hist'.rerun /\ SameBrackets(hist'))
          => ScoresOf(global_consolidated_models') = ScoresOf(global_consolidated_models)]_vars

\* a pass has published again, DayStep days later, data whose dated observation
\* has not changed its bracket
C10_Witness ==
    /\ Published
    /\ hist.rerun
    /\ hist.day # hist.prev_day
    /\ SameBrackets(hist)
    /\ global_consolidated_models # <<>>
    /\ \E i \in 1..Len(Matched(hist)) :
          _get_score_date(Matched(hist)[i].v, "humaneval") # NoTime


(***************************************************************************)
(* The matcher's result, as a pass holds it while it processes bundles.    *)
(***************************************************************************)
Matching == {p \in PassIds : passes[p].pc = "processing"}

BundlesUnder(matched_models, key) ==
    {j \in 1..Len(matched_models) : matched_models[j].k = key}

\* C11: every static record has exactly one bundle under its own id in the
\* match result, and the static member of that bundle is the record itself,
\* never a synthesized one.
C11_StaticRecordAnchorsItsBundle ==
    \A p \in Matching :
        \A i \in 1..Len(passes[p].static_data) :
            LET s == passes[p].static_data[i]
                under == BundlesUnder(passes[p].matched_models, s.k)
            IN  /\ Cardinality(under) = 1
                /\ \A j \in under : passes[p].matched_models[j].v.static = s.v


\* the benchmark key whose record the first pass attaches to a static record:
\* its own id when the benchmark data has it, else the first key that is part
\* of, or contains, its display name; <<>> when there is none
AttachedKey(s, benchmark_data) ==
    IF InDict(benchmark_data, s.k) THEN s.k
    ELSE LET display_name == Lower(s.v.display_name)
             named == {i \in 1..Len(benchmark_data) :
                          \/ Contains(display_name, Lower(benchmark_data[i].k))
                          \/ Contains(Lower(benchmark_data[i].k), display_name)}
         IN  IF named = {} THEN <<>>
             ELSE benchmark_data[CHOOSE i \in named : \A j \in named : i <= j].k

AttachedKeys(static_data, benchmark_data) ==
    {AttachedKey(static_data[i], benchmark_data) : i \in 1..Len(static_data)}

\* C12: every benchmark record that the first pass attached to no static
\* record has exactly one bundle in the match result, under the record's own
\* key, holding that record and a synthesized static member whose provider
\* and display name are not empty.
C12_UnattachedRecordGetsBundle ==
    \A p \in Matching :
        \A i \in 1..Len(passes[p].benchmark_data) :
            LET b == passes[p].benchmark_data[i]
                under == BundlesUnder(passes[p].matched_models, b.k)
            IN  b.k \notin AttachedKeys(passes[p].static_data, passes[p].benchmark_data)
                => /\ Cardinality(under) = 1
                   /\ \A j \in under :
                         LET bundle == passes[p].matched_models[j].v
                         IN  /\ bundle.benchmarks = b.v
                             /\ bundle.static.provider # ""
                             /\ bundle.static.display_name # <<>>


\* the EnhancedModels a query can read: the in-process map and the cache
PublishedModels ==
    {global_consolidated_models[i].v : i \in 1..Len(global_consolidated_models)}
        \cup {redisStore[i].v.json : i \in 1..Len(redisStore)}

\* C13: every category score of every published EnhancedModel lies in
\* [0, 100] (0..10000 in 1/100 point), whatever the formula.
C13_ScoreWithinRange ==
    \A m \in PublishedModels :
        \A c \in DOMAIN m.category_scores :
            /\ m.category_scores[c].score >= 0
            /\ m.category_scores[c].score <= 10000


\* the weight of a source in the overall quality, in 1/1000
PresenceWeight == [static |-> 900, benchmarks |-> 800, analytics |-> 850]

SourcesPresent(bundle) == {src \in DOMAIN PresenceWeight : bundle[src] # None}

\* q is the mean of the weights of the sources in present
IsMeanOfWeights(q, present) ==
    /\ present # {}
    /\ q * Cardinality(present) =
          (IF "static" \in present THEN PresenceWeight["static"] ELSE 0)
          + (IF "benchmarks" \in present THEN PresenceWeight["benchmarks"] ELSE 0)
          + (IF "analytics" \in present THEN PresenceWeight["analytics"] ELSE 0)

\* C14: the overall quality of every EnhancedModel is the mean of the weights
\* of the sources present in its bundle (static 0.9, benchmarks 0.8, analytics
\* 0.85); in every published record it lies in [0, 1], and so does the
\* confidence of every category (0..1000 in 1/1000).
C14_QualityIsMeanOfPresent ==
    /\ \A p \in Matching :
          \A i \in 1..Len(passes[p].consolidated_models) :
              LET e == passes[p].consolidated_models[i]
              IN  IsMeanOfWeights(e.v.overall_quality,
                                  SourcesPresent(Lookup(passes[p].matched_models, e.k)))
    /\ \A m \in PublishedModels :
          /\ m.overall_quality >= 0 /\ m.overall_quality <= 1000
          /\ \A c \in DOMAIN m.category_scores :
                /\ m.category_scores[c].confidence >= 0
                /\ m.category_scores[c].confidence <= 1000

\* a published record from a bundle with two of the three sources (the catalog
\* and the analytics), scored with part of a category's benchmarks
C14_Witness ==
    \E i \in 1..Len(global_consolidated_models) :
        /\ global_consolidated_models[i].v.overall_quality = 875
        /\ \E c \in DOMAIN global_consolidated_models[i].v.category_scores :
              global_consolidated_models[i].v.category_scores[c].confidence < 1000


\* the passes with bundles still to be scored
Scoring == {p \in Matching : passes[p].done < Len(passes[p].matched_models)}

\* C15: while a pass still has bundles to score, no record of that pass is
\* in the external cache or in the in-process map.
C15_NothingStoredBeforeAllScored ==
    \A p \in Scoring :
        /\ \A i \in 1..Len(redisStore) : redisStore[i].v.by # p
        /\ hist.by # p


\* the keys of the files of a directory that can be read
ReadableKeys(files) ==
    UNION {Keys(files[i].data) : i \in {j \in 1..Len(files) : files[j].ok}}

\* C16: whichever directory a pass about to fetch finds, the benchmark fetch
\* returns the records of every file of it that can be read, whether or not
\* another file of it cannot be opened or parsed.
C16_BadFileAloneIsLost ==
    \A p \in PassIds :
        passes[p].pc = "fetching" =>
            \A files \in BenchmarkDirs :
                ReadableKeys(files) \subseteq
                    Keys(BenchmarkFetch(files, managers["benchmarks"], now).data)


\* pass p makes its static fetch in this step
Fetches(p) == passes[p].pc = "created" /\ passes'[p].pc = "fetching"

\* C17: a static fetch that fails (it returns the empty map; every catalog
\* that can be read has a model) leaves the static source with quality 0,
\* also when an earlier fetch had succeeded.
C17_FailedFetchResetsQuality ==
    [][\A p \in PassIds :
          Fetches(p) /\ passes'[p].static_data = <<>>
              => managers'["static"].data_quality = 0]_vars


\* a step in which GetStatus, GetModelScores or GetCategoryRankings answers
QueryAnswered == resp = NoResp /\ resp'.op \in {"status", "scores", "rankings"}

\* C18: a query starts no fetch and no pass, and leaves the managers, the
\* in-process map, the cache and the snapshot file as they were.
C18_QueriesChangeNothing ==
    [][QueryAnswered =>
          /\ passes' = passes
          /\ managers' = managers
          /\ global_consolidated_models' = global_consolidated_models
          /\ redisStore' = redisStore
          /\ outputFile' = outputFile]_vars

\* a query has been answered while the map holds a record the cache does not,
\* with Redis connected and a pass waiting to start
C18_Witness ==
    /\ resp.op \in {"status", "scores", "rankings"}
    /\ resp.code = 200
    /\ redis_client = "Redis"
    /\ \E i \in 1..Len(global_consolidated_models) :
          /\ global_consolidated_models[i].k \in QueryIds
          /\ ~InDict(redisStore, global_consolidated_models[i].k)
    /\ \E p \in PassIds : passes[p].pc = "created"


\* the keys of the bundles of pass p whose scoring does not raise and scores
\* at least one category
ScoredKeys(p) ==
    {passes[p].matched_models[i].k :
        i \in {j \in 1..Len(passes[p].matched_models) :
                  \E cs \in {calculate_scores(passes[p].matched_models[j].v, now)} :
                      cs # Raised /\ DOMAIN cs # {}}}

\* C19: the in-process map changes only in the step in which a pass publishes,
\* once per pass; that step leaves in it exactly the records the pass assembled:
\* one under the key of every bundle that scored a category and did not fail,
\* with that key as model_id, made by this pass, and nothing else.
C19_MapIsWhatThePassAssembled ==
    [][/\ global_consolidated_models' # global_consolidated_models => hist' # hist
       /\ hist' # hist =>
             /\ passes[hist'.by].pc = "processing"
             /\ passes'[hist'.by].pc \in {"returned", "raised"}
             /\ global_consolidated_models' = passes[hist'.by].consolidated_models
             /\ Keys(global_consolidated_models') = ScoredKeys(hist'.by)
             /\ Len(global_consolidated_models') = Cardinality(ScoredKeys(hist'.by))
             /\ \A i \in 1..Len(global_consolidated_models') :
                   /\ global_consolidated_models'[i].v.model_id
                        = global_consolidated_models'[i].k
                   /\ global_consolidated_models'[i].v.last_consolidated = now]_vars

\* a second pass has completed and left a map without a record that an earlier
\* pass had assembled (it is still in the cache), and without a bundle it skipped
C19_Witness ==
    /\ Published
    /\ passes[hist.by].pc = "returned"
    /\ global_consolidated_models # <<>>
    /\ hist.matched \ Keys(global_consolidated_models) # {}
    /\ \E i \in 1..Len(redisStore) :
          /\ redisStore[i].v.by # hist.by
          /\ ~InDict(global_consolidated_models, redisStore[i].k)


\* C20: a cache write that fails for one model is not raised and does not end
\* the pass: the pass goes on to the next bundle, the model is in the map the
\* pass publishes, and in the snapshot when the pass writes it.
C20_CacheWriteFailureAbsorbed ==
    [][/\ \A p \in PassIds :
             (passes[p].pc = "processing" /\ passes'[p].pc = "processing"
                 /\ passes'[p].uncached # passes[p].uncached)
                 => /\ passes'[p].done = passes[p].done + 1
                    /\ passes'[p].uncached \subseteq Keys(passes'[p].consolidated_models)
                    /\ passes'[p].failed = passes[p].failed
       /\ hist' # hist =>
             /\ hist'.uncached \subseteq Keys(global_consolidated_models')
             /\ ~hist'.file_error =>
                   /\ passes'[hist'.by].pc = "returned"
                   /\ hist'.uncached \subseteq Keys(outputFile'.content)]_vars

\* a pass returned after a cache write had failed for one model and succeeded
\* for a later one
C20_Witness ==
    /\ Published
    /\ passes[hist.by].pc = "returned"
    /\ hist.uncached # {}
    /\ \E i \in 1..Len(redisStore) :
          /\ redisStore[i].v.by = hist.by
          /\ redisStore[i].k \notin hist.uncached


\* the bundles of pass p whose static member was synthesized from a benchmark
\* record (only those carry api_alias and open_source)
Synthesized(p) ==
    {i \in 1..Len(passes[p].matched_models) :
        Has(passes[p].matched_models[i].v.static, "open_source")}

\* the provider the identity-prefix rule gives, "" when no prefix applies
PrefixRule(key) ==
    LET starts(prefix) == Len(key) >= Len(prefix) /\ SubSeq(key, 1, Len(prefix)) = prefix
    IN  IF starts(<<"g", "p", "t">>) \/ starts(<<"o", "p", "e", "n", "a", "i">>)
        THEN "openai"
        ELSE IF starts(<<"c", "l", "a", "u", "d", "e">>)
                \/ starts(<<"a", "n", "t", "h", "r", "o", "p", "i", "c">>)
        THEN "anthropic"
        ELSE IF starts(<<"g", "e", "m", "i", "n", "i">>)
                \/ starts(<<"g", "o", "o", "g", "l", "e">>)
        THEN "google"
        ELSE IF starts(<<"l", "l", "a", "m", "a">>) \/ starts(<<"m", "e", "t", "a">>)
        THEN "meta"
        ELSE ""

\* C21 (as stated): the provider of a synthesized static record is the prefix
\* rule's when the benchmark key matches a prefix, also when the record
\* carries another provider; else the record's provider field; else "unknown".
C21_PrefixRuleFirst ==
    \A p \in Matching : \A i \in Synthesized(p) :
        LET b == passes[p].matched_models[i]
        IN  b.v.static.provider =
               IF PrefixRule(Lower(b.k)) # "" THEN PrefixRule(Lower(b.k))
               ELSE IF Has(b.v.benchmarks, "provider") THEN b.v.benchmarks.provider
               ELSE "unknown"

\* C21 (amended): the provider of a synthesized static record is the benchmark
\* record's provider field when it has one; else the prefix rule's when the
\* key matches a prefix; else "unknown".
C21_ProviderFieldFirst ==
    \A p \in Matching : \A i \in Synthesized(p) :
        LET b == passes[p].matched_models[i]
        IN  b.v.static.provider =
               IF Has(b.v.benchmarks, "provider") THEN b.v.benchmarks.provider
               ELSE IF PrefixRule(Lower(b.k)) # "" THEN PrefixRule(Lower(b.k))
               ELSE "unknown"

\* a synthesized record under a key with a prefix whose benchmark record names
\* another provider, beside one whose record names none
C21_Witness ==
    \E p \in Matching : \E i, j \in Synthesized(p) :
        /\ Has(passes[p].matched_models[i].v.benchmarks, "provider")
        /\ PrefixRule(Lower(passes[p].matched_models[i].k))
              \notin {"", passes[p].matched_models[i].v.benchmarks.provider}
        /\ ~Has(passes[p].matched_models[j].v.benchmarks, "provider")
        /\ passes[p].matched_models[j].v.static.provider = "openai"


\* a display name in lower case without the characters that are not letters
\* or digits
NormalizedName(display_name) ==
    LET lower == Lower(display_name)
    IN  SelectSeq(lower, LAMBDA ch : IsAlnum(ch))

\* C22: when the analytics data has a key equal to a static record's
\* normalized name, the bundle anchored by that record holds the analytics
\* record under that key, wherever the key stands among the analytics keys.
C22_ExactKeyWins ==
    \A p \in Matching :
        \A i \in 1..Len(passes[p].matched_models) \ Synthesized(p) :
            LET b == passes[p].matched_models[i]
                name == NormalizedName(b.v.static.display_name)
            IN  InDict(passes[p].analytics_data, name)
                    => b.v.analytics = Lookup(passes[p].analytics_data, name)


\* the raw score a bundle holds for a benchmark, as a set: the one of the
\* benchmark record when it has the benchmark, else the one of the analytics
\* evaluations, else none
RawValues(bundle, b) ==
    IF /\ Has(bundle.benchmarks, "benchmarks")
       /\ Has(bundle.benchmarks.benchmarks, b)
    THEN LET e == bundle.benchmarks.benchmarks[b]
         IN  IF Has(e, "score") THEN {e.score}
             ELSE IF Has(e, "num") THEN {e.num} ELSE {}
    ELSE IF /\ Has(bundle.analytics, "evaluations")
            /\ Has(bundle.analytics.evaluations, b)
    THEN {bundle.analytics.evaluations[b].num}
    ELSE {}

\* the configuration of a category
ConfigOf(c) ==
    CLASSIFICATION_CATEGORIES[CHOOSE i \in 1..Len(CLASSIFICATION_CATEGORIES) :
                                  CLASSIFICATION_CATEGORIES[i].name = c]

\* the weights of a category, those of the benchmarks in listed only
WeightOf(c, listed) ==
    SumSeq([i \in 1..Len(ConfigOf(c).benchmark_weights) |->
               IF ConfigOf(c).benchmark_weights[i].k \in listed
               THEN ConfigOf(c).benchmark_weights[i].v ELSE 0])

\* the records a pass has assembled, each with the bundle it was made from
AssembledBy(p) ==
    {[model |-> passes[p].consolidated_models[i].v,
      bundle |-> Lookup(passes[p].matched_models, passes[p].consolidated_models[i].k)] :
        i \in 1..Len(passes[p].consolidated_models)}

\* C23: the confidence of every CategoryScore is min(W_evidence / W_all, 1)
\* over the weights of the benchmarks listed in its contributing evidence,
\* and the evidence lists exactly the category's benchmarks that the bundle
\* has a raw score for, each with that raw value, its configured weight, its
\* source, its date and its adjusted value.
C23_ConfidenceIsWeightShare ==
    \A p \in Matching : \A a \in AssembledBy(p) :
        \A c \in DOMAIN a.model.category_scores :
            LET cs == a.model.category_scores[c]
                all == Keys(ConfigOf(c).benchmark_weights)
                listed == DOMAIN cs.contributing_scores
            IN  /\ listed = {b \in all : RawValues(a.bundle, b) # {}}
                /\ cs.confidence =
                      Min(1000, (WeightOf(c, listed) * 1000) \div WeightOf(c, all))
                /\ \A b \in listed :
                      /\ DOMAIN cs.contributing_scores[b]
                            = {"score", "weight", "source", "date", "adjusted_score"}
                      /\ cs.contributing_scores[b].score \in RawValues(a.bundle, b)
                      /\ cs.contributing_scores[b].weight = WeightOf(c, {b})

\* a record was assembled with a category scored from one of several weighted
\* benchmarks, and one scored from two
C23_Witness ==
    \E p \in Matching : \E a \in AssembledBy(p) :
        \E c, d \in DOMAIN a.model.category_scores :
            /\ Cardinality(DOMAIN a.model.category_scores[c].contributing_scores) = 1
            /\ a.model.category_scores[c].confidence < 500
            /\ Cardinality(DOMAIN a.model.category_scores[d].contributing_scores) = 2


\* the raw score of a benchmark in the benchmark record of a bundle, and in
\* its analytics evaluations, as sets
InBenchmarkRecord(bundle, b) ==
    IF Has(bundle.benchmarks, "benchmarks") /\ Has(bundle.benchmarks.benchmarks, b)
    THEN LET e == bundle.benchmarks.benchmarks[b]
         IN  IF Has(e, "score") THEN {e.score} ELSE IF Has(e, "num") THEN {e.num} ELSE {}
    ELSE {}

InEvaluations(bundle, b) ==
    IF Has(bundle.analytics, "evaluations") /\ Has(bundle.analytics.evaluations, b)
    THEN {bundle.analytics.evaluations[b].num}
    ELSE {}

\* the benchmark record's score or, failing that, the analytics'
FirstRaw(bundle, b) ==
    IF InBenchmarkRecord(bundle, b) # {} THEN InBenchmarkRecord(bundle, b)
    ELSE InEvaluations(bundle, b)

\* the bundles pass p has gone through without an error, each with the
\* category scores it got (none when the bundle was skipped)
ScoredBy(p) ==
    {[bundle |-> passes[p].matched_models[i].v,
      category_scores |->
          IF InDict(passes[p].consolidated_models, passes[p].matched_models[i].k)
          THEN Lookup(passes[p].consolidated_models,
                      passes[p].matched_models[i].k).category_scores
          ELSE [c \in {} |-> 0]] :
        i \in {j \in 1..passes[p].done :
                  passes[p].matched_models[j].k \notin passes[p].failed}}

\* C24: a bundle gets a CategoryScore for a category exactly when one of the
\* category's benchmarks has a raw score in its benchmark record or, failing
\* that, in its analytics evaluations; the value used is the benchmark
\* record's when both hold one.
C24_ScoredIffEvidence ==
    \A p \in Matching : \A s \in ScoredBy(p) :
        \A c \in CategoryNames :
            /\ c \in DOMAIN s.category_scores
                  <=> \E b \in Keys(ConfigOf(c).benchmark_weights) :
                         FirstRaw(s.bundle, b) # {}
            /\ c \in DOMAIN s.category_scores =>
                  \A b \in DOMAIN s.category_scores[c].contributing_scores :
                      s.category_scores[c].contributing_scores[b].score
                          \in FirstRaw(s.bundle, b)


\* the date of the observation itself: the date of the benchmark record's
\* entry when it has one, the time of the analytics record for an analytics
\* evaluation, NoTime when the observation has none
OwnDate(bundle, b, source) ==
    IF source = "benchmarks"
    THEN Get(bundle.benchmarks.benchmarks[b], "date", NoTime)
    ELSE Get(bundle.analytics.metadata, "last_updated", NoTime)

\* 1.0, 0.9, 0.8 or 0.7 by age, 0.8 without a date (in 1/10)
FactorOfAge(date, today) ==
    <<8, 10, 9, 8, 7>>[Bracket(date, today) + 1]

\* C25: the recency factor in every adjusted score is the one of the age of
\* that observation's own date, and 0.8 for an observation without a date,
\* whatever else the bundle holds.
C25_RecencyOfOwnDate ==
    \A p \in Matching : \A a \in AssembledBy(p) :
        \A c \in DOMAIN a.model.category_scores :
            \A b \in DOMAIN a.model.category_scores[c].contributing_scores :
                LET e == a.model.category_scores[c].contributing_scores[b]
                    own == OwnDate(a.bundle, b, e.source)
                    quality == IF e.source = "benchmarks" THEN 90 ELSE 95
                IN  e.adjusted_score =
                        (e.score * FactorOfAge(own, a.model.last_consolidated) * quality)
                            \div 1000


\* the weighted mean of the adjusted scores of a CategoryScore of category c
BaseOf(c, cs) ==
    LET w == ConfigOf(c).benchmark_weights
        listed == DOMAIN cs.contributing_scores
    IN  SumSeq([i \in 1..Len(w) |->
                   IF w[i].k \in listed
                   THEN cs.contributing_scores[w[i].k].adjusted_score * w[i].v ELSE 0])
            \div WeightOf(c, listed)

\* the records assembled so far that have a score for category c
AssembledWith(c) ==
    {a \in UNION {AssembledBy(p) : p \in Matching} : c \in DOMAIN a.model.category_scores}

\* C26: the reasoning score (weighted_average_with_context) is
\* min(100, base * (1 + b)), b = min(0.10, (context_window - 4096) / 100000)
\* above 4096 tokens and 0 otherwise; it is never below base.
C26_ContextBoostNeverLowers ==
    \A a \in AssembledWith("reasoning") :
        LET cs == a.model.category_scores["reasoning"]
            base == BaseOf("reasoning", cs)
            context_window == a.model.static_data.context_window
            b == IF context_window > 4096 THEN Min(10000, context_window - 4096) ELSE 0
        IN  /\ cs.score = Min(10000, base + (base * b) \div 100000)
            /\ cs.score >= base
            /\ cs.score * 10 <= base * 11


\* C27: the creative_writing score (interpolated_with_bonuses) is
\* min(100, base + context_bonus + cost_bonus) with a context bonus in [0, 10]
\* (0 up to 4000 tokens, a point per 1000 tokens above) and a cost bonus in
\* [0, 5]; it is never below base.
C27_BonusesNeverLower ==
    \A a \in AssembledWith("creative_writing") :
        LET cs == a.model.category_scores["creative_writing"]
            base == BaseOf("creative_writing", cs)
            context_window == a.model.static_data.context_window
            cost_per_1k == a.model.static_data.cost_in_per_1k
            context_bonus == IF context_window > 4000
                             THEN Min(1000, (context_window - 4000) \div 10) ELSE 0
            cost_bonus == Max(0, 500 - cost_per_1k * 5)
        IN  /\ cs.score = Min(10000, base + context_bonus + cost_bonus)
            /\ cs.score >= base


\* the static fetch of pass p has returned; its benchmark fetch has; its
\* analytics fetch has been started
StaticFetched(p) == Has(passes[p], "static_data")
BenchmarkFetched(p) == Has(passes[p], "benchmark_data")
AnalyticsStarted(p) == passes[p].pc = "awaiting" \/ Has(passes[p], "analytics_data")

\* C28 (as stated): the benchmark and analytics fetches of a pass are started
\* without waiting for its static fetch: once the static fetch has returned,
\* the other two have been started.
C28_FetchesStartTogether ==
    \A p \in PassIds :
        StaticFetched(p) => (BenchmarkFetched(p) /\ AnalyticsStarted(p))

\* C28 (amended): the fetches of a pass are made in turn, static, benchmark,
\* analytics, and the analytics request, the only fetch that suspends, is
\* sent when the other two have returned: a suspended fetch delays no start.
C28_FetchesInTurn ==
    \A p \in PassIds :
        /\ AnalyticsStarted(p) => BenchmarkFetched(p)
        /\ BenchmarkFetched(p) => StaticFetched(p)
        /\ passes[p].pc = "awaiting" => (StaticFetched(p) /\ BenchmarkFetched(p))

\* the analytics request of a pass is in flight, with the catalog and the
\* benchmark files read
C28_Witness ==
    \E p \in PassIds :
        /\ passes[p].pc = "awaiting"
        /\ passes[p].static_data # <<>>
        /\ passes[p].benchmark_data # <<>>


\* pass p, not yet in its loop over the bundles, takes a step
StepsBeforeLoop(p) ==
    /\ passes[p].pc \in {"created", "fetching", "awaiting", "matching"}
    /\ passes'[p] # passes[p]
    /\ passes'[p].pc # "processing"

\* what the two queries answer from the map models, whatever is asked
AnswersFrom(models) ==
    [scores |-> [model_id \in QueryIds |->
                    GetModelScoresResponse(model_id, "None", TRUE, <<>>, models)],
     rankings |-> [category \in QueryCategories |-> [limit \in 1..MaxLimit |->
                      GetCategoryRankingsResponse(category, limit, 0, "None", TRUE,
                                                  <<>>, models)]]]

\* C29: no step of a pass before its loop changes the in-process map, and a
\* pass that the matcher's error aborts leaves it as it was published, with
\* the answers GetModelScores and GetCategoryRankings give from it.
C29_AbortedPassLeavesMap ==
    [][\A p \in PassIds :
          StepsBeforeLoop(p) =>
              /\ global_consolidated_models' = global_consolidated_models
              /\ hist' = hist
              /\ passes'[p].pc = "raised" =>
                    AnswersFrom(global_consolidated_models')
                        = AnswersFrom(global_consolidated_models)]_vars

\* a model of the map an earlier pass published is served from the map after a
\* later pass was aborted by the matcher
C29_Witness ==
    /\ \E p \in PassIds :
          /\ passes[p].pc = "raised" /\ passes[p].error = "match_models"
          /\ Published /\ hist.by < p
    /\ redis_client = "None"
    /\ resp.op = "scores" /\ resp.code = 200
    /\ InDict(global_consolidated_models, resp.model_id)


\* the passes that have replaced the map (the write of the output file, which
\* comes after, may have failed)
Replaced ==
    {p \in PassIds : \/ passes[p].pc = "returned"
                     \/ passes[p].pc = "raised" /\ passes[p].error = "output file"}

AllFinished == \A p \in PassIds : passes[p].pc \in {"none", "returned", "raised"}

====
